---- MODULE Spec2Model ----
(***************************************************************************)
(* Model of mobile-app/src/config/api.js: the resilient API client of the  *)
(* mobile application.  One logical apiCall (retry loop per host, fallback *)
(* over the configured hosts), the host-discovery probe testMultipleIPs,   *)
(* checkServerHealth and switchToNextApiUrl, all sharing the module-level  *)
(* API_BASE_URL / currentApiIndex and the persisted "user" record.         *)
(*                                                                         *)
(* An asynchronous function is a process; each action is one synchronous   *)
(* continuation of it, from one await to the next.  The awaits modelled    *)
(* as suspension points are the token lookup, the fetch and the backoff    *)
(* timer; `await response.text()` and `await AsyncStorage.removeItem` run  *)
(* inside the continuation that handles the fetch result.                  *)
(***************************************************************************)
EXTENDS Integers, Sequences, FiniteSets, TLC

(***************************************************************************)
(* Configuration (api.js lines 4-14).                                      *)
(***************************************************************************)
DEVELOPMENT_API_URLS ==
    << "http://192.168.100.46:3000/api",
       "http://192.168.100.1:3000/api",
       "http://localhost:3000/api" >>

MAX_RETRIES == 3

BACKOFF_UNIT_MS == 1000

NumUrls == Len(DEVELOPMENT_API_URLS)

\* DEVELOPMENT_API_URLS[i] with the zero-based index of the code.
UrlAt(i) == DEVELOPMENT_API_URLS[i + 1]

\* Array.prototype.indexOf: the first index holding url, -1 when absent.
IndexOf(url) ==
    IF \E i \in 0..(NumUrls - 1) : UrlAt(i) = url
    THEN CHOOSE i \in 0..(NumUrls - 1) :
            /\ UrlAt(i) = url
            /\ \A j \in 0..(NumUrls - 1) : UrlAt(j) = url => i <= j
    ELSE -1

(***************************************************************************)
(* Error messages are sequences of text fragments; String.includes is      *)
(* containment of a fragment.  The two fragments the retry loop searches   *)
(* for are kept as fragments of their own wherever they occur.             *)
(***************************************************************************)
AUTH_FAILED == "Authentication failed"
NOT_FOUND == "not found"

Includes(msg, needle) == \E i \in 1..Len(msg) : msg[i] = needle

(***************************************************************************)
(* The persisted "user" record, reduced to the token it carries.           *)
(***************************************************************************)
NoUser == "none"
Tokens == {"t1", "t2"}

(***************************************************************************)
(* What one fetch can settle with: a response, the timeout of withTimeout, *)
(* or a transport error.                                                   *)
(***************************************************************************)
Resp(status, ctype, text) ==
    [type |-> "response", status |-> status, ctype |-> ctype, text |-> text]

TimeoutOutcome == [type |-> "timeout", status |-> 0, ctype |-> "", text |-> ""]
NetworkOutcome == [type |-> "network", status |-> 0, ctype |-> "", text |-> ""]

JSON_CT == "application/json"
HTML_CT == "text/html; charset=utf-8"

BODY_OBJ == "{\"id\":1}"
BODY_EMPTY == ""
BODY_ERR == "{\"error\":\"Forbidden\"}"
BODY_MSG_NF == "{\"message\":\"User not found\"}"
BODY_PLAIN == "Bad Gateway"
BODY_HTML == "<html>"

Ok200 == Resp(200, JSON_CT, BODY_OBJ)
Ok204 == Resp(204, JSON_CT, BODY_EMPTY)
R401 == Resp(401, JSON_CT, BODY_ERR)
R401Html == Resp(401, HTML_CT, BODY_HTML)
R404 == Resp(404, JSON_CT, BODY_EMPTY)
R404Html == Resp(404, HTML_CT, BODY_HTML)
R500 == Resp(500, JSON_CT, BODY_EMPTY)
R500Html == Resp(500, HTML_CT, BODY_HTML)
R403 == Resp(403, JSON_CT, BODY_ERR)
R400NotFound == Resp(400, JSON_CT, BODY_MSG_NF)
RMalformed == Resp(200, JSON_CT, BODY_PLAIN)

\* Every outcome the sequential specification draws from.
Outcomes ==
    { Ok200, Ok204, R401, R401Html, R404, R404Html, R500, R500Html, R403,
      R400NotFound, RMalformed, TimeoutOutcome, NetworkOutcome }

\* The outcomes the interleaved specification draws from.
CoreOutcomes == { Ok200, R401, R404, R500 }

\* The outcomes of the /debug/test request the sequential specification draws
\* from, and those the interleaved specification draws from.
ProbeOutcomes == { Ok200, R500, RMalformed, TimeoutOutcome, NetworkOutcome }
CoreProbeOutcomes == { Ok200, R500 }

(***************************************************************************)
(* Response helpers.                                                       *)
(***************************************************************************)
\* response.ok
ResponseOk(r) == r.status >= 200 /\ r.status <= 299

\* contentType.includes("text/html")
IsHtml(r) == r.ctype = HTML_CT

\* The message of the rejection of withTimeout(fetch(...)).
RejectMessage(r) ==
    IF r.type = "timeout" THEN << "Request timeout" >>
    ELSE << "Network request failed" >>

\* JSON.parse of a body text: the parsed object, reduced to its message and
\* error fields (<< >> when absent), or the parser's error message.  The
\* message of the SyntaxError is the engine's own wording about the offending
\* token; it is taken not to repeat the words of the body.
JsonParse(text) ==
    CASE text = BODY_OBJ ->
            [ok |-> TRUE, message |-> << >>, error |-> << >>, text |-> text]
      [] text = BODY_ERR ->
            [ok |-> TRUE, message |-> << >>, error |-> << "Forbidden" >>, text |-> text]
      [] text = BODY_MSG_NF ->
            [ok |-> TRUE, message |-> << "User ", NOT_FOUND >>, error |-> << >>, text |-> text]
      [] text = BODY_EMPTY ->
            [ok |-> FALSE, message |-> << "Unexpected end of JSON input" >>,
             error |-> << >>, text |-> text]
      [] OTHER ->
            [ok |-> FALSE, message |-> << "Unexpected token" >>,
             error |-> << >>, text |-> text]

\* Faulty variant: the body is parsed without the test for an empty text.
ParseBody_NoEmptyTest(text) == JsonParse(text)

\* responseText.trim() ? JSON.parse(responseText) : {}
ParseBody(text) ==
    IF text = BODY_EMPTY
    THEN [ok |-> TRUE, message |-> << >>, error |-> << >>, text |-> "{}"]
    ELSE JsonParse(text)

\* responseData?.message || responseData?.error || `HTTP ${response.status}`
ErrorMessage(data, status) ==
    IF data.message # << >> THEN data.message
    ELSE IF data.error # << >> THEN data.error
    ELSE << "HTTP ", ToString(status) >>

Failure(msg, removes) ==
    [ok |-> FALSE, message |-> msg, removes |-> removes, data |-> ""]

\* Faulty variant: no branch for status 404.
StatusFailure_No404Branch(r, data) ==
    IF r.status = 401 THEN Failure(<< AUTH_FAILED >>, TRUE)
    ELSE IF r.status = 500 THEN Failure(<< "Server internal error" >>, FALSE)
    ELSE Failure(ErrorMessage(data, r.status), FALSE)

\* The error thrown for a non-2xx response (lines 214-227); the 401 branch
\* removes the "user" record before it throws.
StatusFailure(r, data) ==
    IF r.status = 401 THEN Failure(<< AUTH_FAILED >>, TRUE)
    ELSE IF r.status = 404 THEN Failure(<< "API endpoint ", NOT_FOUND >>, FALSE)
    ELSE IF r.status = 500 THEN Failure(<< "Server internal error" >>, FALSE)
    ELSE Failure(ErrorMessage(data, r.status), FALSE)

\* The body of the try block of one attempt (lines 195-230): what the attempt
\* against baseUrl yields when its fetch settles with r.
Attempt(baseUrl, r) ==
    IF r.type # "response" THEN Failure(RejectMessage(r), FALSE)
    ELSE IF IsHtml(r)
    THEN Failure(<< "Server returned HTML error page. Check if API server is running at ",
                    baseUrl >>, FALSE)
    ELSE LET p == ParseBody(r.text) IN
         IF ~p.ok THEN Failure(<< "Invalid JSON response: " >> \o p.message, FALSE)
         ELSE IF ~ResponseOk(r) THEN StatusFailure(r, p)
         ELSE [ok |-> TRUE, message |-> << >>, removes |-> FALSE, data |-> p.text]

\* Faulty variant: the catch block breaks on every failure.
StopsRetry_FirstFailure(msg, attempt) == TRUE

\* Faulty variant: the catch block also breaks on an HTML page and on a body
\* that fails to parse.
StopsRetry_BadBodyToo(msg, attempt) ==
    \/ Includes(msg, AUTH_FAILED)
    \/ Includes(msg, NOT_FOUND)
    \/ Includes(msg, "Invalid JSON response: ")
    \/ Includes(msg, "Server returned HTML error page. Check if API server is running at ")
    \/ attempt = MAX_RETRIES

\* The break condition of the catch block (lines 235-241).
StopsRetry(msg, attempt) ==
    \/ Includes(msg, AUTH_FAILED)
    \/ Includes(msg, NOT_FOUND)
    \/ attempt = MAX_RETRIES

\* Faulty variant: the same wait before every retry.
WaitTime_Fixed(attempt) == BACKOFF_UNIT_MS

\* const waitTime = attempt * 1000
WaitTime(attempt) == attempt * BACKOFF_UNIT_MS

(***************************************************************************)
(* State.                                                                  *)
(***************************************************************************)
VARIABLES
    API_BASE_URL,     \* module-level current host
    currentApiIndex,  \* module-level index of the current host
    user,             \* AsyncStorage "user": NoUser or the stored token
    pc,               \* apiCall: "idle", "token", "fetch", "wait", "done"
    reqUrl,           \* baseUrl of the makeApiRequest in progress
    fbIdx,            \* 0 in the first try; k when the for-of loop is at entry k
    attempt,          \* loop variable of the retry loop
    token,            \* the token makeApiRequest looked up
    lastError,        \* apiCall's lastError (its message)
    attemptedUrls,    \* apiCall's attemptedUrls
    result,           \* what apiCall returned or threw
    runs,             \* history: baseUrl of every makeApiRequest of this call
    runOut,           \* history: outcomes of the attempts of the latest makeApiRequest
    waits,            \* history: backoff waits of the latest makeApiRequest
    authFailed,       \* history: some attempt of this call took the 401 branch (line 217)
    abandoned,        \* fetches of this call that withTimeout gave up on, still in flight
    tpc,              \* testMultipleIPs: "idle", "probe", "done"
    ti,               \* testMultipleIPs: loop variable i
    tResult,          \* what testMultipleIPs returned
    tProbed,          \* history: the probes of this testMultipleIPs, host and outcome
    hpc,              \* checkServerHealth: "idle", "fetch", "done"
    hUrl,             \* host the health request was sent to
    hOut,             \* history: what the health request settled with
    hResult,          \* what checkServerHealth returned or threw
    switchRet         \* what switchToNextApiUrl returned, until the caller has taken it

shared == << API_BASE_URL, currentApiIndex, user >>
callVars == << pc, reqUrl, fbIdx, attempt, token, lastError, attemptedUrls, result,
               runs, runOut, waits, authFailed, abandoned >>
tmiVars == << tpc, ti, tResult, tProbed >>
healthVars == << hpc, hUrl, hOut, hResult >>
vars == << shared, callVars, tmiVars, healthVars, switchRet >>

NoResult == [type |-> "none"]

\* switchRet when no return value of switchToNextApiUrl is held, and the
\* null it returns.
NoSwitch == "no call"
NULL == "null"

Init ==
    /\ API_BASE_URL = DEVELOPMENT_API_URLS[1]
    /\ currentApiIndex = 0
    /\ user \in {NoUser, "t1"}
    /\ pc = "idle"
    /\ reqUrl = ""
    /\ fbIdx = 0
    /\ attempt = 0
    /\ token = NoUser
    /\ lastError = << >>
    /\ attemptedUrls = << >>
    /\ result = NoResult
    /\ runs = << >>
    /\ runOut = << >>
    /\ waits = << >>
    /\ authFailed = FALSE
    /\ abandoned = 0
    /\ tpc = "idle"
    /\ ti = 0
    /\ tResult = NoResult
    /\ tProbed = << >>
    /\ hpc = "idle"
    /\ hUrl = ""
    /\ hOut = NoResult
    /\ hResult = NoResult
    /\ switchRet = NoSwitch

(***************************************************************************)
(* apiCall (lines 115-150) and makeApiRequest (lines 152-252).             *)
(***************************************************************************)
\* The for-of loop of apiCall from entry `from` on (entries counted from 1):
\* the first entry that differs from the current host `cur`, 0 when none is
\* left.  Line 130 compares with API_BASE_URL as it is at that iteration.
\* Faulty variant: the loop without the `continue` of line 130.
NextFallback_NoSkip(from, cur) == IF from <= NumUrls THEN from ELSE 0

NextFallback(from, cur) ==
    IF \E k \in from..NumUrls : DEVELOPMENT_API_URLS[k] # cur
    THEN CHOOSE k \in from..NumUrls :
            /\ DEVELOPMENT_API_URLS[k] # cur
            /\ \A j \in from..NumUrls : DEVELOPMENT_API_URLS[j] # cur => k <= j
    ELSE 0

\* The message of the error thrown on line 149.
AllFailedMessage(last, attempted) ==
    << "API call failed: " >> \o last
        \o << ". Tried ", ToString(Len(attempted)), " endpoints." >>

\* Faulty variant: the catch of the loop pushes the current host as well.
PushedUrl_AlwaysCurrent == API_BASE_URL

\* The url pushed on attemptedUrls when a makeApiRequest has thrown: the
\* current host in the first catch (line 124), devUrl in the loop (line 142).
PushedUrl == IF fbIdx = 0 THEN API_BASE_URL ELSE reqUrl

\* apiCall's lastError after a makeApiRequest has thrown msg: assigned in the
\* first catch (line 123) and nowhere else.
LastErrorAfter(msg) == IF fbIdx = 0 THEN msg ELSE lastError

\* apiCall is called: line 121 reads API_BASE_URL and calls makeApiRequest,
\* which runs up to `await getAuthToken()`.
ApiCallStart ==
    /\ pc \in {"idle", "done"}
    /\ pc' = "token"
    /\ reqUrl' = API_BASE_URL
    /\ fbIdx' = 0
    /\ attempt' = 0
    /\ token' = NoUser
    /\ lastError' = << >>
    /\ attemptedUrls' = << >>
    /\ result' = NoResult
    /\ runs' = << API_BASE_URL >>
    /\ runOut' = << >>
    /\ waits' = << >>
    /\ authFailed' = FALSE
    /\ abandoned' = 0
    /\ UNCHANGED << shared, tmiVars, healthVars, switchRet >>

\* getAuthToken resolves (lines 41-52, 172): the headers are built and the
\* retry loop issues the fetch of attempt 1.
TokenResolved ==
    /\ pc = "token"
    /\ token' = user
    /\ attempt' = 1
    /\ runOut' = << >>
    /\ waits' = << >>
    /\ pc' = "fetch"
    /\ UNCHANGED << shared, reqUrl, fbIdx, lastError, attemptedUrls, result, runs,
                    authFailed, abandoned, tmiVars, healthVars, switchRet >>

\* Faulty variant: a successful fallback host is not made the current host.
CallSucceeds_NoPromote(data) ==
    /\ result' = [type |-> "return", data |-> data]
    /\ pc' = "done"
    /\ UNCHANGED << API_BASE_URL, currentApiIndex >>
    /\ UNCHANGED << reqUrl, fbIdx, attempt, lastError, attemptedUrls, runs >>

\* Faulty variant: line 138 missing, currentApiIndex is left as it was.
CallSucceeds_StaleIndex(data) ==
    /\ result' = [type |-> "return", data |-> data]
    /\ pc' = "done"
    /\ IF fbIdx = 0
       THEN UNCHANGED << API_BASE_URL, currentApiIndex >>
       ELSE /\ API_BASE_URL' = reqUrl
            /\ UNCHANGED currentApiIndex
    /\ UNCHANGED << reqUrl, fbIdx, attempt, lastError, attemptedUrls, runs >>

\* Faulty variant: the host of every successful makeApiRequest is made the
\* current host, the one of line 121 included.
CallSucceeds_AlwaysPromote(data) ==
    /\ result' = [type |-> "return", data |-> data]
    /\ pc' = "done"
    /\ API_BASE_URL' = reqUrl
    /\ currentApiIndex' = IndexOf(reqUrl)
    /\ UNCHANGED << reqUrl, fbIdx, attempt, lastError, attemptedUrls, runs >>

\* makeApiRequest returned data: apiCall returns it, after promoting the
\* fallback host when the success came from the loop (lines 137-140).
CallSucceeds(data) ==
    /\ result' = [type |-> "return", data |-> data]
    /\ pc' = "done"
    /\ IF fbIdx = 0
       THEN UNCHANGED << API_BASE_URL, currentApiIndex >>
       ELSE /\ API_BASE_URL' = reqUrl
            /\ currentApiIndex' = IndexOf(reqUrl)
    /\ UNCHANGED << reqUrl, fbIdx, attempt, lastError, attemptedUrls, runs >>

\* makeApiRequest threw msg (line 251): the catch of apiCall records it and
\* the for-of loop goes on to its next entry, or line 149 throws.
RunFails(msg) ==
    LET pushed == Append(attemptedUrls, PushedUrl)
        last == LastErrorAfter(msg)
        k == NextFallback(fbIdx + 1, API_BASE_URL)
    IN  /\ attemptedUrls' = pushed
        /\ lastError' = last
        /\ IF k # 0
           THEN /\ reqUrl' = DEVELOPMENT_API_URLS[k]
                /\ fbIdx' = k
                /\ runs' = Append(runs, DEVELOPMENT_API_URLS[k])
                /\ attempt' = 0
                /\ pc' = "token"
                /\ UNCHANGED result
           ELSE /\ result' = [type |-> "throw", message |-> AllFailedMessage(last, pushed),
                              tried |-> Len(pushed), cause |-> last]
                /\ pc' = "done"
                /\ UNCHANGED << reqUrl, fbIdx, runs, attempt >>
        /\ UNCHANGED << API_BASE_URL, currentApiIndex >>

\* The attempt failed with a retryable error before the last attempt: the
\* loop waits attempt * 1000 ms (lines 243-247).
Backoff ==
    /\ waits' = Append(waits, WaitTime(attempt))
    /\ pc' = "wait"
    /\ UNCHANGED << API_BASE_URL, currentApiIndex, reqUrl, fbIdx, attempt, lastError,
                    attemptedUrls, result, runs >>

\* withTimeout (lines 33-38) settles with whichever promise of the race
\* settles first.  When that is the timer, nothing aborts the fetch: its
\* request stays in flight (1), while a response or a transport error means
\* the request is over (0).
StillInFlight(r) == IF r.type = "timeout" THEN 1 ELSE 0

\* The fetch of the current attempt settles with outcome r (lines 198-248).
FetchSettled(r) ==
    /\ pc = "fetch"
    /\ abandoned' = abandoned + StillInFlight(r)
    /\ LET a == Attempt(reqUrl, r) IN
        /\ runOut' = Append(runOut, r)
        /\ authFailed' = (authFailed \/ a.removes)
        /\ user' = IF a.removes THEN NoUser ELSE user
        /\ IF a.ok THEN /\ CallSucceeds(a.data)
                        /\ UNCHANGED waits
           ELSE IF StopsRetry(a.message, attempt)
                THEN /\ RunFails(a.message)
                     /\ UNCHANGED waits
                ELSE Backoff
    /\ UNCHANGED << token, tmiVars, healthVars, switchRet >>

\* The backoff timer fires: the loop increments attempt and issues the next
\* fetch (lines 246, 194-198).
BackoffElapsed ==
    /\ pc = "wait"
    /\ attempt' = attempt + 1
    /\ pc' = "fetch"
    /\ UNCHANGED << shared, reqUrl, fbIdx, token, lastError, attemptedUrls, result,
                    runs, runOut, waits, authFailed, abandoned, tmiVars, healthVars, switchRet >>

\* A fetch that withTimeout gave up on settles at last; its promise lost the
\* race of line 34, so nothing of the call's state changes.
AbandonedFetchSettles ==
    /\ pc # "idle"
    /\ abandoned > 0
    /\ abandoned' = abandoned - 1
    /\ UNCHANGED << shared, pc, reqUrl, fbIdx, attempt, token, lastError, attemptedUrls,
                    result, runs, runOut, waits, authFailed, tmiVars, healthVars,
                    switchRet >>

\* The caller has taken apiCall's result.
ApiReturn ==
    /\ pc = "done"
    /\ pc' = "idle"
    /\ reqUrl' = ""
    /\ fbIdx' = 0
    /\ attempt' = 0
    /\ token' = NoUser
    /\ lastError' = << >>
    /\ attemptedUrls' = << >>
    /\ result' = NoResult
    /\ runs' = << >>
    /\ runOut' = << >>
    /\ waits' = << >>
    /\ authFailed' = FALSE
    /\ abandoned' = 0
    /\ UNCHANGED << shared, tmiVars, healthVars, switchRet >>

(***************************************************************************)
(* testMultipleIPs (lines 84-113).                                         *)
(***************************************************************************)
\* testMultipleIPs is called: the loop issues the probe of entry 0.
TestMultipleIPsStart ==
    /\ tpc \in {"idle", "done"}
    /\ tpc' = "probe"
    /\ ti' = 0
    /\ tResult' = NoResult
    /\ tProbed' = << >>
    /\ UNCHANGED << shared, callVars, healthVars, switchRet >>

\* Faulty variant: any response counts, whatever its status.
ProbeOk_AnyResponse(r) == r.type = "response"

\* The probe was answered and response.ok holds (line 100).
ProbeOk(r) == r.type = "response" /\ ResponseOk(r)

\* The probe of entry i settles with r: a 2xx response makes that entry the
\* current host and returns; anything else moves on to the next entry, and
\* after the last entry the failure is returned.
ProbeSettled(r) ==
    /\ tpc = "probe"
    /\ tProbed' = Append(tProbed, [url |-> UrlAt(ti), out |-> r])
    /\ IF ProbeOk(r)
       THEN /\ API_BASE_URL' = UrlAt(ti)
            /\ currentApiIndex' = ti
            /\ tResult' = [type |-> "return", success |-> TRUE, url |-> UrlAt(ti)]
            /\ tpc' = "done"
            /\ UNCHANGED ti
       ELSE IF ti + 1 < NumUrls
       THEN /\ ti' = ti + 1
            /\ UNCHANGED << API_BASE_URL, currentApiIndex, tResult, tpc >>
       ELSE /\ tResult' = [type |-> "return", success |-> FALSE, url |-> ""]
            /\ tpc' = "done"
            /\ UNCHANGED << API_BASE_URL, currentApiIndex, ti >>
    /\ UNCHANGED << user, callVars, healthVars, switchRet >>

\* The caller has taken testMultipleIPs' result.
TestMultipleIPsReturn ==
    /\ tpc = "done"
    /\ tpc' = "idle"
    /\ ti' = 0
    /\ tResult' = NoResult
    /\ tProbed' = << >>
    /\ UNCHANGED << shared, callVars, healthVars, switchRet >>

(***************************************************************************)
(* checkServerHealth (lines 55-82).                                        *)
(***************************************************************************)
HealthReport(healthy, status, error, data) ==
    [type |-> "return", healthy |-> healthy, status |-> status, error |-> error,
     data |-> data]

\* Faulty variant: the rejection of response.json() escapes the catch.
HealthOutcome_JsonUncaught(r) ==
    IF r.type # "response" THEN HealthReport(FALSE, 0, RejectMessage(r), "")
    ELSE IF ResponseOk(r)
    THEN LET p == JsonParse(r.text) IN
         IF p.ok THEN HealthReport(TRUE, r.status, << >>, p.text)
         ELSE [type |-> "throw", message |-> p.message]
    ELSE HealthReport(FALSE, r.status, << >>, "")

\* What checkServerHealth returns when its request settles with r.  A field
\* the returned object does not have is 0 (status) or empty (error, data).
\* response.json() rejects on a body that is not JSON, the empty body
\* included, and the catch turns that into a report as well.
HealthOutcome(r) ==
    IF r.type # "response" THEN HealthReport(FALSE, 0, RejectMessage(r), "")
    ELSE IF ResponseOk(r)
    THEN LET p == JsonParse(r.text) IN
         IF p.ok THEN HealthReport(TRUE, r.status, << >>, p.text)
         ELSE HealthReport(FALSE, 0, p.message, "")
    ELSE HealthReport(FALSE, r.status, << >>, "")

\* checkServerHealth is called: the request goes to the host current now.
CheckServerHealthStart ==
    /\ hpc \in {"idle", "done"}
    /\ hpc' = "fetch"
    /\ hUrl' = API_BASE_URL
    /\ hOut' = NoResult
    /\ hResult' = NoResult
    /\ UNCHANGED << shared, callVars, tmiVars, switchRet >>

\* The health request settles with r.
HealthSettled(r) ==
    /\ hpc = "fetch"
    /\ hOut' = r
    /\ hResult' = HealthOutcome(r)
    /\ hpc' = "done"
    /\ UNCHANGED << shared, callVars, tmiVars, hUrl, switchRet >>

\* The caller has taken checkServerHealth's result.
CheckServerHealthReturn ==
    /\ hpc = "done"
    /\ hpc' = "idle"
    /\ hUrl' = ""
    /\ hOut' = NoResult
    /\ hResult' = NoResult
    /\ UNCHANGED << shared, callVars, tmiVars, switchRet >>

(***************************************************************************)
(* switchToNextApiUrl (lines 254-262).                                     *)
(***************************************************************************)
\* Faulty variant: after the last entry the index goes back to the first.
SwitchToNextApiUrl_Wraps(taken) ==
    /\ switchRet = NoSwitch
    /\ currentApiIndex' = (currentApiIndex + 1) % NumUrls
    /\ API_BASE_URL' = UrlAt((currentApiIndex + 1) % NumUrls)
    /\ switchRet' = IF taken THEN NoSwitch ELSE UrlAt((currentApiIndex + 1) % NumUrls)
    /\ UNCHANGED << user, callVars, tmiVars, healthVars >>

\* switchToNextApiUrl runs from call to return in one step.  `taken` says
\* that the caller consumes the returned value in that same step, so that
\* switchRet does not hold it afterwards.
SwitchToNextApiUrl(taken) ==
    /\ switchRet = NoSwitch
    /\ IF currentApiIndex < NumUrls - 1
       THEN /\ currentApiIndex' = currentApiIndex + 1
            /\ API_BASE_URL' = UrlAt(currentApiIndex + 1)
            /\ switchRet' = IF taken THEN NoSwitch ELSE UrlAt(currentApiIndex + 1)
       ELSE /\ UNCHANGED << API_BASE_URL, currentApiIndex >>
            /\ switchRet' = IF taken THEN NoSwitch ELSE NULL
    /\ UNCHANGED << user, callVars, tmiVars, healthVars >>

\* The caller has taken switchToNextApiUrl's result.
SwitchReturn ==
    /\ switchRet # NoSwitch
    /\ switchRet' = NoSwitch
    /\ UNCHANGED << shared, callVars, tmiVars, healthVars >>

(***************************************************************************)
(* The application outside this file writes the "user" record at login.    *)
(***************************************************************************)
StoreUser(t) ==
    /\ user # t
    /\ user' = t
    /\ UNCHANGED << API_BASE_URL, currentApiIndex, callVars, tmiVars, healthVars,
                    switchRet >>

(***************************************************************************)
(* Specifications.                                                         *)
(***************************************************************************)
ApiBusy == pc # "idle"
TmiBusy == tpc # "idle"
HealthBusy == hpc # "idle"
SwitchBusy == switchRet # NoSwitch

\* Any interleaving of the continuations of apiCall, testMultipleIPs,
\* checkServerHealth and switchToNextApiUrl.
Next ==
    \/ ApiCallStart
    \/ TokenResolved
    \/ \E r \in CoreOutcomes : FetchSettled(r)
    \/ BackoffElapsed
    \/ ApiReturn
    \/ TestMultipleIPsStart
    \/ \E r \in CoreProbeOutcomes : ProbeSettled(r)
    \/ TestMultipleIPsReturn
    \/ CheckServerHealthStart
    \/ \E r \in CoreProbeOutcomes : HealthSettled(r)
    \/ CheckServerHealthReturn
    \/ SwitchToNextApiUrl(TRUE)

Spec == Init /\ [][Next]_vars

\* One operation at a time: an operation starts only when no other is in
\* progress, and runs to its return before anything else happens.
SeqApiCall ==
    /\ ~TmiBusy /\ ~HealthBusy /\ ~SwitchBusy
    /\ \/ ApiCallStart
       \/ TokenResolved
       \/ \E r \in Outcomes : FetchSettled(r)
       \/ BackoffElapsed
       \/ AbandonedFetchSettles
       \/ ApiReturn

SeqTestMultipleIPs ==
    /\ ~ApiBusy /\ ~HealthBusy /\ ~SwitchBusy
    /\ \/ TestMultipleIPsStart
       \/ \E r \in ProbeOutcomes : ProbeSettled(r)
       \/ TestMultipleIPsReturn

SeqCheckServerHealth ==
    /\ ~ApiBusy /\ ~TmiBusy /\ ~SwitchBusy
    /\ \/ CheckServerHealthStart
       \/ \E r \in Outcomes : HealthSettled(r)
       \/ CheckServerHealthReturn

SeqIdle ==
    /\ ~ApiBusy /\ ~TmiBusy /\ ~HealthBusy
    /\ \/ SwitchToNextApiUrl(FALSE)
       \/ SwitchReturn
       \/ ~SwitchBusy /\ \E t \in Tokens : StoreUser(t)

SeqNext == SeqApiCall \/ SeqTestMultipleIPs \/ SeqCheckServerHealth \/ SeqIdle

SeqSpec == Init /\ [][SeqNext]_vars

\* One apiCall interleaved with the application's writes of the "user"
\* record.
AuthNext ==
    \/ ApiCallStart
    \/ TokenResolved
    \/ \E r \in CoreOutcomes : FetchSettled(r)
    \/ BackoffElapsed
    \/ ApiReturn
    \/ \E t \in Tokens : StoreUser(t)

AuthSpec == Init /\ [][AuthNext]_vars

(***************************************************************************)
(* Vocabulary of the properties.                                           *)
(***************************************************************************)
Last(q) == q[Len(q)]

\* The order apiCall is to visit the hosts in when cur is the current host.
VisitOrder(cur) ==
    << cur >> \o SelectSeq(DEVELOPMENT_API_URLS, LAMBDA u : u # cur)

IsPrefix(p, q) == Len(p) <= Len(q) /\ \A i \in 1..Len(p) : p[i] = q[i]

\* A makeApiRequest of the call is in progress.
RunInProgress == pc \in {"fetch", "wait"}

\* runOut and waits describe a makeApiRequest that is over.
RunOver == pc \in {"token", "done"} /\ runOut # << >>

\* The host of the makeApiRequest that runOut and waits describe.
RunUrl == IF pc = "token" THEN runs[Len(runs) - 1] ELSE reqUrl

\* The makeApiRequest that runOut and waits describe was one of the loop.
FallbackRun == IF pc = "token" THEN Len(runs) >= 3 ELSE fbIdx # 0

Returned == pc = "done" /\ result.type = "return"
Threw == pc = "done" /\ result.type = "throw"

(***************************************************************************)
(* C1: with nothing else running, apiCall runs makeApiRequest against the  *)
(* current host first, then against the other configured hosts in list     *)
(* order, each host once; it stops at the first host that succeeds and     *)
(* returns what that host's response parsed to, and it throws only when    *)
(* every configured host has been tried and has failed.                    *)
(***************************************************************************)
C1_VisitsHostsInOrder ==
    pc # "idle" =>
        /\ runs # << >>
        /\ IsPrefix(runs, VisitOrder(runs[1]))
        /\ (pc # "done" => runs[1] = API_BASE_URL /\ reqUrl = Last(runs))
        /\ \A i \in 1..Len(runOut) :
              Attempt(RunUrl, runOut[i]).ok => Returned /\ i = Len(runOut)
        /\ Returned =>
              /\ reqUrl = Last(runs)
              /\ Attempt(reqUrl, Last(runOut)).ok
              /\ result.data = Attempt(reqUrl, Last(runOut)).data
        /\ Threw =>
              /\ runs = VisitOrder(API_BASE_URL)
              /\ Len(runs) = NumUrls
              /\ ~Attempt(reqUrl, Last(runOut)).ok

\* The call started on the second host, saw it and the first host fail, and
\* returned the third host's result.
C1_Witness ==
    /\ Returned
    /\ runs = << UrlAt(1), UrlAt(0), UrlAt(2) >>

(***************************************************************************)
(* C2: once an attempt of the call has been answered 401, the "user"       *)
(* record is gone, the call is over and has thrown an authentication       *)
(* error: no retry and no fallback attempt follows.                        *)
(***************************************************************************)
C2_AuthFailureEndsCall ==
    authFailed =>
        /\ user = NoUser
        /\ Threw
        /\ Includes(result.message, AUTH_FAILED)

(***************************************************************************)
(* C3, as claimed: in the fallback loop the retry loop never goes beyond   *)
(* its first attempt.                                                      *)
(***************************************************************************)
C3_OneAttemptPerFallbackHost == fbIdx # 0 => attempt <= 1

\* A complete run of the retry loop against url: outs are the outcomes of its
\* attempts and ws its waits.  Every attempt but the last failed without a
\* stop word and before the third attempt, and was followed by a wait of its
\* number times 1000 ms; the last attempt succeeded, or failed with a stop
\* word, or was the third.
IsRetryRun(url, outs, ws) ==
    /\ Len(outs) \in 1..MAX_RETRIES
    /\ Len(ws) = Len(outs) - 1
    /\ \A i \in 1..Len(ws) : ws[i] = i * 1000
    /\ \A i \in 1..(Len(outs) - 1) :
          LET a == Attempt(url, outs[i]) IN
          /\ ~a.ok
          /\ ~Includes(a.message, AUTH_FAILED)
          /\ ~Includes(a.message, NOT_FOUND)
    /\ LET a == Attempt(url, Last(outs)) IN
          \/ a.ok
          \/ Includes(a.message, AUTH_FAILED)
          \/ Includes(a.message, NOT_FOUND)
          \/ Len(outs) = MAX_RETRIES

(***************************************************************************)
(* C3, amended: each alternate host gets one run of the same retry loop as *)
(* the current host, which makes up to 3 attempts with backoff.            *)
(***************************************************************************)
C3_FallbackRunsRetryLoop ==
    /\ (fbIdx # 0 /\ RunInProgress) => attempt \in 1..MAX_RETRIES
    /\ (RunOver /\ FallbackRun) => IsRetryRun(RunUrl, runOut, waits)

\* A fallback host has answered 500 three times and its run is over.
C3_Witness ==
    /\ RunOver
    /\ FallbackRun
    /\ runOut = << R500, R500, R500 >>
    /\ waits = << 1000, 2000 >>

(***************************************************************************)
(* C4: when every host has failed, the error apiCall throws carries the    *)
(* message of the error of the last host attempted.                        *)
(***************************************************************************)
C4_ThrowsLastHostsError ==
    Threw => result.cause = Attempt(reqUrl, Last(runOut)).message

\* apiCall has returned the result of a host of the fallback loop.
FallbackSucceeded == Returned /\ Len(runs) > 1


(***************************************************************************)
(* C5: when apiCall returns the result of a host of the fallback loop,     *)
(* that host is the current host (API_BASE_URL and currentApiIndex), and   *)
(* the apiCall that follows sends its first attempt to it.                 *)
(***************************************************************************)
C5_FallbackHostBecomesCurrent ==
    [][ /\ FallbackSucceeded' =>
            /\ Last(runs') # runs'[1]
            /\ API_BASE_URL' = Last(runs')
            /\ currentApiIndex' \in 0..(NumUrls - 1)
            /\ UrlAt(currentApiIndex') = Last(runs')
        /\ (FallbackSucceeded /\ pc' = "token") =>
            /\ runs' = << Last(runs) >>
            /\ reqUrl' = Last(runs)
      ]_vars

\* The first host failed and the third host succeeded.
C5_Witness ==
    /\ FallbackSucceeded
    /\ runs[1] = UrlAt(0)
    /\ Last(runs) = UrlAt(2)
    /\ API_BASE_URL = UrlAt(2)
    /\ currentApiIndex = 2

\* The fetch was answered with status 404.
Is404(r) == r.type = "response" /\ r.status = 404


(***************************************************************************)
(* C6, as claimed: a host whose first answer is a 404 gets exactly one     *)
(* attempt and no backoff wait.                                            *)
(***************************************************************************)
C6_NotFoundSingleAttempt ==
    (runOut # << >> /\ Is404(runOut[1])) =>
        /\ RunOver
        /\ Len(runOut) = 1
        /\ waits = << >>

\* The response is neither an HTML page nor a body that fails to parse.
ReadableBody(r) == r.type = "response" /\ ~IsHtml(r) /\ ParseBody(r.text).ok

(***************************************************************************)
(* C6, amended: a host whose first answer is a 404 that is not an HTML     *)
(* page and whose body is empty or JSON gets exactly one attempt and no    *)
(* backoff wait; apiCall then goes to the next host or throws.             *)
(***************************************************************************)
C6_ReadableNotFoundSingleAttempt ==
    (runOut # << >> /\ Is404(runOut[1]) /\ ReadableBody(runOut[1])) =>
        /\ RunOver
        /\ Len(runOut) = 1
        /\ waits = << >>
        /\ (pc = "token" /\ attempt = 0) \/ Threw

\* The current host answered 404 and apiCall is about to try the next host.
C6_Witness ==
    /\ pc = "token"
    /\ Len(runs) = 2
    /\ runOut = << R404 >>
    /\ waits = << >>

\* The fetch was answered with status 500.
Is500(r) == r.type = "response" /\ r.status = 500


(***************************************************************************)
(* C7: a host that answers 500 to every attempt gets exactly 3 attempts,   *)
(* with a wait of 1000 ms after the first, of 2000 ms after the second and *)
(* none after the third.                                                   *)
(***************************************************************************)
C7_ServerErrorThreeAttempts ==
    (runOut # << >> /\ \A i \in 1..Len(runOut) : Is500(runOut[i])) =>
        /\ Len(runOut) <= 3
        /\ Len(runOut) = 1 =>
              /\ waits = << 1000 >>
              /\ pc = "wait" \/ (pc = "fetch" /\ attempt = 2)
        /\ Len(runOut) = 2 =>
              /\ waits = << 1000, 2000 >>
              /\ pc = "wait" \/ (pc = "fetch" /\ attempt = 3)
        /\ Len(runOut) = 3 =>
              /\ waits = << 1000, 2000 >>
              /\ RunOver

\* Three 500 answers from one host, and the run is over.
C7_Witness ==
    /\ RunOver
    /\ Len(runOut) = 3
    /\ \A i \in 1..3 : Is500(runOut[i])
    /\ waits = << 1000, 2000 >>

\* The response is an HTML page or has a body that fails to parse.
BadBody(r) == r.type = "response" /\ ~ReadableBody(r)


(***************************************************************************)
(* C8, as claimed: a host whose first answer is an HTML page or a body     *)
(* that does not parse gets no second attempt and no backoff wait.         *)
(***************************************************************************)
C8_BadBodyNotRetried ==
    (runOut # << >> /\ BadBody(runOut[1])) =>
        /\ RunOver
        /\ Len(runOut) = 1
        /\ waits = << >>

(***************************************************************************)
(* C8, amended: an HTML page and a body that does not parse are retryable: *)
(* after such an answer to attempt 1 or 2 the loop waits the attempt       *)
(* number times 1000 ms and makes the next attempt; after such an answer   *)
(* to attempt 3 the loop ends without a wait.                              *)
(***************************************************************************)
C8_BadBodyIsRetried ==
    \A i \in 1..Len(runOut) :
        BadBody(runOut[i]) =>
            IF i < MAX_RETRIES
            THEN /\ Len(waits) >= i
                 /\ waits[i] = i * 1000
                 /\ RunInProgress \/ Len(runOut) > i
            ELSE /\ RunOver
                 /\ Len(runOut) = MAX_RETRIES
                 /\ Len(waits) = MAX_RETRIES - 1

\* A host answered with an HTML page, then twice with a body that does not
\* parse, and the run is over.
C8_Witness ==
    /\ RunOver
    /\ runOut = << R404Html, RMalformed, RMalformed >>
    /\ waits = << 1000, 2000 >>

\* The body texts that are JSON.
JsonBodies == { BODY_OBJ, BODY_ERR, BODY_MSG_NF }


(***************************************************************************)
(* C9: checkServerHealth never throws.  It reports healthy exactly for a   *)
(* 2xx response whose JSON payload was read, reports the status of a       *)
(* non-2xx response, and reports an error when the request was rejected or *)
(* the payload could not be read.                                          *)
(***************************************************************************)
C9_HealthNeverThrows ==
    /\ hResult.type # "throw"
    /\ hpc = "done" =>
          /\ hResult.type = "return"
          /\ hResult.healthy =
                (hOut.type = "response" /\ ResponseOk(hOut) /\ hOut.text \in JsonBodies)
          /\ hResult.healthy =>
                hResult.status = hOut.status /\ hResult.data = hOut.text
          /\ (hOut.type = "response" /\ ~ResponseOk(hOut)) =>
                hResult.status = hOut.status /\ hResult.error = << >>
          /\ (hOut.type # "response" \/ (ResponseOk(hOut) /\ hOut.text \notin JsonBodies)) =>
                hResult.error # << >>

\* The health request timed out and the report says unhealthy, with an error.
C9_Witness ==
    /\ hpc = "done"
    /\ hOut.type = "timeout"
    /\ hResult.type = "return"
    /\ ~hResult.healthy
    /\ hResult.error = << "Request timeout" >>

(***************************************************************************)
(* C10: in every state of every interleaving of apiCall, testMultipleIPs,  *)
(* switchToNextApiUrl and checkServerHealth the host list is not empty,    *)
(* currentApiIndex is an index of it and API_BASE_URL is the entry there.  *)
(***************************************************************************)
C10_CurrentHostConsistent ==
    /\ NumUrls >= 1
    /\ currentApiIndex \in 0..(NumUrls - 1)
    /\ API_BASE_URL = UrlAt(currentApiIndex)

\* All three asynchronous operations are in flight, the fallback loop of
\* apiCall is running and the current host is the last of the list.
C10_Witness ==
    /\ pc = "fetch"
    /\ fbIdx # 0
    /\ tpc = "probe"
    /\ hpc = "fetch"
    /\ currentApiIndex = 2
    /\ API_BASE_URL = UrlAt(2)


\* How many times host u is on the list q.
Occurrences(q, u) == Cardinality({i \in 1..Len(q) : q[i] = u})

GoodResponse(r) ==
    /\ r.type = "response"
    /\ r.status >= 200 /\ r.status <= 299
    /\ r.ctype # HTML_CT
    /\ r.text \in JsonBodies \cup { BODY_EMPTY }

\* What the body text of a good response parses to.
ParsedBody(text) == IF text = BODY_EMPTY THEN "{}" ELSE text

(***************************************************************************)
(* C12: when the first attempt against the host the call started on is     *)
(* answered by a good response, the call is over with that one attempt:    *)
(* it has returned the parsed body, there has been no backoff wait, no     *)
(* host went on attemptedUrls and no other host was sent a request.        *)
(***************************************************************************)
C12_FirstAttemptSuccessReturnsAtOnce ==
    (Len(runs) = 1 /\ runOut # << >> /\ GoodResponse(runOut[1])) =>
        /\ Returned
        /\ result.data = ParsedBody(runOut[1].text)
        /\ Len(runOut) = 1
        /\ attempt = 1
        /\ waits = << >>
        /\ attemptedUrls = << >>
        /\ runs = << reqUrl >>
        /\ fbIdx = 0

\* The current host answered the first attempt with 204 and no body.
C12_Witness ==
    /\ Returned
    /\ runs = << API_BASE_URL >>
    /\ runOut = << Ok204 >>
    /\ result.data = "{}"

\* The HTTP requests of the call that are in flight: the one the retry loop
\* is waiting for and those withTimeout gave up on.
Outstanding == (IF pc = "fetch" THEN 1 ELSE 0) + abandoned

(***************************************************************************)
(* C13: at every moment of an apiCall at most one of its HTTP requests is  *)
(* in flight, also after an attempt has ended by timeout.                  *)
(***************************************************************************)
C13_AtMostOneRequestInFlight == Outstanding <= 1

(***************************************************************************)
(* C14: a run of the retry procedure that ended on a failure before its    *)
(* third attempt ended on a 401 or a 404 response; every other failure is  *)
(* followed by another attempt until three attempts have been made.        *)
(***************************************************************************)
C14_OnlyAuthAndNotFoundEndEarly ==
    RunOver =>
        \/ Attempt(RunUrl, Last(runOut)).ok
        \/ Len(runOut) = MAX_RETRIES
        \/ /\ Last(runOut).type = "response"
           /\ Last(runOut).status \in { 401, 404 }

\* The probe p was answered with a 2xx status.
Probe2xx(p) ==
    p.out.type = "response" /\ p.out.status >= 200 /\ p.out.status <= 299

\* What holds of a testMultipleIPs in progress or over: the probes went to
\* the hosts in list order; while it goes on no probe so far was answered
\* 2xx; a reported success means the last probe is the only one answered
\* 2xx and its host is the current host; a reported failure means every
\* host was probed and none answered 2xx.
ProbesInOrder ==
    tpc # "idle" =>
        /\ \A j \in 1..Len(tProbed) : tProbed[j].url = DEVELOPMENT_API_URLS[j]
        /\ tpc = "probe" =>
              /\ Len(tProbed) = ti
              /\ \A j \in 1..Len(tProbed) : ~Probe2xx(tProbed[j])
        /\ (tpc = "done" /\ tResult.success) =>
              /\ tProbed # << >>
              /\ \A j \in 1..Len(tProbed) : Probe2xx(tProbed[j]) <=> j = Len(tProbed)
              /\ API_BASE_URL = Last(tProbed).url
              /\ currentApiIndex = Len(tProbed) - 1
              /\ tResult.url = API_BASE_URL
        /\ (tpc = "done" /\ ~tResult.success) =>
              /\ Len(tProbed) = NumUrls
              /\ \A j \in 1..Len(tProbed) : ~Probe2xx(tProbed[j])

(***************************************************************************)
(* C15: testMultipleIPs, run with nothing else in between, probes the      *)
(* hosts in list order, the next one only when the probe before it has     *)
(* settled without a 2xx answer; when it reports success the current host  *)
(* is the first host that answered 2xx and no later host was probed; when  *)
(* no host answered 2xx it reports failure, and none of its steps but the  *)
(* one that reports success changes API_BASE_URL or currentApiIndex.       *)
(***************************************************************************)
C15_ProbeSelectsFirstHealthyHost ==
    [][ /\ ProbesInOrder'
        /\ (tpc = "probe" /\ ~(tpc' = "done" /\ tResult'.success)) =>
              UNCHANGED << API_BASE_URL, currentApiIndex >> ]_vars

\* With the third host current, the first host timed out and the second
\* answered 2xx.
C15_Witness ==
    /\ tpc = "done"
    /\ tResult.success
    /\ Len(tProbed) = 2
    /\ tProbed[1].out = TimeoutOutcome
    /\ currentApiIndex = 1

\* The step is the one in which a makeApiRequest of the for-of loop returns.
FallbackSuccessStep ==
    /\ pc = "fetch"
    /\ fbIdx # 0
    /\ pc' = "done"
    /\ result'.type = "return"

(***************************************************************************)
(* C16: in any interleaving, no step of checkServerHealth changes          *)
(* API_BASE_URL or currentApiIndex, and the only step of apiCall that      *)
(* changes them is the one in which a fallback host succeeds, which sets   *)
(* them to that host; so the step in which the call returns the result of  *)
(* the host it started on, and the step in which it throws after every     *)
(* host has failed, leave both as they are.                                *)
(***************************************************************************)
C16_OnlyFallbackSuccessMovesHost ==
    [][ /\ hpc' # hpc => UNCHANGED << API_BASE_URL, currentApiIndex >>
        /\ pc' # pc =>
              IF FallbackSuccessStep
              THEN /\ API_BASE_URL' = reqUrl
                   /\ currentApiIndex' = IndexOf(reqUrl)
              ELSE UNCHANGED << API_BASE_URL, currentApiIndex >> ]_vars

\* The call has returned the result of the host it started on while another
\* operation had moved the current host on; the call did not move it back.
C16_Witness ==
    /\ Returned
    /\ fbIdx = 0
    /\ runs = << UrlAt(0) >>
    /\ API_BASE_URL = UrlAt(1)
    /\ currentApiIndex = 1

(***************************************************************************)
(* C17: whatever testMultipleIPs and switchToNextApiUrl do to the current  *)
(* host while an apiCall is suspended, the call runs makeApiRequest        *)
(* against no host twice, and when it has thrown the all-endpoints-failed  *)
(* error it has run makeApiRequest against every configured host.          *)
(***************************************************************************)
C17_EachHostOnceUnderInterleaving ==
    pc # "idle" =>
        /\ \A k \in 1..NumUrls : Occurrences(runs, DEVELOPMENT_API_URLS[k]) <= 1
        /\ Threw => \A k \in 1..NumUrls : Occurrences(runs, DEVELOPMENT_API_URLS[k]) >= 1

\* The step is the one in which the 401 branch removes the "user" record
\* (line 218).
RemovalStep ==
    /\ pc = "fetch"
    /\ Len(runOut') = Len(runOut) + 1
    /\ Attempt(reqUrl, Last(runOut')).removes

(***************************************************************************)
(* C18: when the 401 branch removes the "user" record, the record holds    *)
(* the token the rejected request was sent with (none when it was sent     *)
(* without one): a record written after the token lookup of that request   *)
(* is never removed.                                                       *)
(***************************************************************************)
C18_RemovesOnlyTheRejectedToken ==
    [][ RemovalStep => user = token ]_vars

\* The step is a call of switchToNextApiUrl whose result switchRet holds.
SwitchStep == switchRet = NoSwitch /\ switchRet' # NoSwitch

(***************************************************************************)
(* C19: a call of switchToNextApiUrl made while the current index is not   *)
(* the last one adds one to currentApiIndex, makes that entry of the list  *)
(* API_BASE_URL and returns it; made while the index is the last one it    *)
(* returns null and changes neither, so the index never goes back to the   *)
(* first host.                                                             *)
(***************************************************************************)
C19_SwitchAdvancesByOneOrReturnsNull ==
    [][ SwitchStep =>
          IF currentApiIndex # NumUrls - 1
          THEN /\ currentApiIndex' = currentApiIndex + 1
               /\ API_BASE_URL' = DEVELOPMENT_API_URLS[currentApiIndex' + 1]
               /\ switchRet' = API_BASE_URL'
          ELSE /\ switchRet' = NULL
               /\ UNCHANGED << API_BASE_URL, currentApiIndex >> ]_vars

\* Called with the last host current, switchToNextApiUrl has returned null.
C19_Witness ==
    /\ switchRet = NULL
    /\ currentApiIndex = NumUrls - 1
    /\ API_BASE_URL = DEVELOPMENT_API_URLS[NumUrls]

====
